---- MODULE Spec2Model ----
(***************************************************************************)
(* State-machine model of the ToDoList repository layer (SQLAlchemy       *)
(* variant): models/task.py, models/project.py, repositories/*.py,        *)
(* services/task_service.py, commands/autoclose_overdue.py and            *)
(* commands/scheduler.py.                                                  *)
(*                                                                         *)
(* Strings are sequences of one-character strings so that strip() and      *)
(* len() are computed, not assumed.  Dates and datetimes are day numbers.  *)
(* One SQLAlchemy session (autoflush=False) serves the repository calls,   *)
(* as in cli/console.py run_cli; autoclose_overdue_tasks opens its own.    *)
(***************************************************************************)
EXTENDS Integers, Sequences, FiniteSets, TLC

VARIABLES
    projects,   \* committed rows of table "projects": id -> [name, description]
    tasks,      \* committed rows of table "tasks": id -> task record
    dirty,      \* session identity map: task id -> attribute values changed in memory, not flushed
    next_pid,   \* next value of the projects.id sequence
    next_tid,   \* next value of the tasks.id sequence
    clock,      \* date.today() / datetime.now(), in days
    last,       \* the last repository/service call and its outcome
    is_running, \* TaskScheduler.is_running
    stop_event, \* TaskScheduler.stop_event
    jobs,       \* jobs registered in the global `schedule`, named by the registering thread
    due,        \* registered jobs whose 15 minutes have elapsed
    threads,    \* threads created by start(): id -> [pc, todo] inside run_scheduler
    cur_thread, \* TaskScheduler.thread (0 = None)
    caller,     \* the main thread: [pc, todo] inside start() / stop() / run_once()
    mains,      \* processes running autoclose_overdue.main
    stopped,    \* history: stop() was called after start(), and start() not since
    sessions,   \* sessions of request handlers and of a reconciliation pass between query and commit
    storage     \* in_memory_storage.storage.projects: the list of [id, name, description]

storeVars == <<projects, tasks, dirty, next_pid, next_tid, clock, last>>
schedVars == <<is_running, stop_event, jobs, due, threads, cur_thread, caller, mains, stopped>>
vars == <<projects, tasks, dirty, next_pid, next_tid, clock, last,
          is_running, stop_event, jobs, due, threads, cur_thread, caller, mains, stopped,
          sessions, storage>>

----------------------------------------------------------------------------
(* Bounds of the model *)

MaxProjectId == 3       \* ids the projects.id sequence may hand out
MaxTaskId == 3          \* ids the tasks.id sequence may hand out
MaxDay == 2             \* the clock runs over days 1..MaxDay
MaxEditedProjects == 1  \* projects created under Spec, where tasks are edited
MaxEditedTasks == 1     \* tasks created under Spec, where tasks are edited
MaxThreads == 2         \* threads TaskScheduler.start() may create
MaxMains == 1           \* processes running autoclose_overdue.main at once
MaxServiceProjects == 2 \* projects created under ServiceSpec
MaxServiceTasks == 2    \* tasks created under ServiceSpec
MaxRaceProjects == 2    \* projects created under RaceSpec
MaxRaceTasks == 2       \* tasks created under RaceSpec
MaxHandlers == 2        \* request handlers creating projects at once
MAX_PROJECTS == 2       \* validators.MAX_PROJECTS as set through the environment
MAX_NUMBER_OF_PROJECT == 2   \* config.MAX_NUMBER_OF_PROJECT as set through the environment
MAX_NUMBER_OF_TASK == 2      \* config.MAX_NUMBER_OF_TASK as set through the environment

----------------------------------------------------------------------------
(* Values *)

NoneDate == 0 - 1             \* Python None for deadline / closed_at
BadFormat == 0 - 2            \* a deadline string that is not YYYY-MM-DD
NoneStr == "<None>"          \* Python None for an optional status argument
NoneSeq == <<"<None>">>      \* Python None for an optional title / description argument

MaxTitleLen == 30
MaxDescriptionLen == 150
MaxStatusColumnLen == 10

VALID_STATUSES == {"todo", "doing", "done"}

Long31 == [i \in 1..31 |-> "x"]
Long151 == [i \in 1..151 |-> "x"]
Blank == <<" ">>

RECURSIVE LStrip(_)
LStrip(s) == IF s = <<>> THEN <<>>
             ELSE IF Head(s) = " " THEN LStrip(Tail(s)) ELSE s

RECURSIVE RStrip(_)
RStrip(s) == IF s = <<>> THEN <<>>
             ELSE IF s[Len(s)] = " " THEN RStrip(SubSeq(s, 1, Len(s) - 1)) ELSE s

\* str.strip()
Strip(s) == RStrip(LStrip(s))

----------------------------------------------------------------------------
(* models/project.py *)

\* Project._validate_name: TRUE when it raises ValidationError
ProjectNameInvalid(name) == Strip(name) = <<>> \/ Len(name) > MaxTitleLen

\* Project._validate_description: TRUE when it raises ValidationError
ProjectDescriptionInvalid(description) == Len(description) > MaxDescriptionLen

\* Project.__init__: "ok" or the error it raises
ProjectInit(name, description) ==
    IF ProjectNameInvalid(name) THEN "ValidationError"
    ELSE IF ProjectDescriptionInvalid(description) THEN "ValidationError"
    ELSE "ok"

----------------------------------------------------------------------------
(* models/task.py *)

\* Task._validate_title: TRUE when it raises ValidationError
TitleInvalid(title) == Strip(title) = <<>> \/ Len(title) > MaxTitleLen

\* Task._validate_description: TRUE when it raises ValidationError
DescriptionInvalid(description) == Len(description) > MaxDescriptionLen

\* Task._validate_status: TRUE when it raises ValidationError
StatusInvalid(status) == status \notin VALID_STATUSES

\* Task._validate_deadline on a date: TRUE when it raises InvalidDeadlineError
DeadlineInPast(deadline, today) == deadline # NoneDate /\ deadline < today

\* Task.__init__: "ok" or the error raised, for the keyword arguments of TaskRepository.create
TaskInit(title, description, status, deadline, today) ==
    IF TitleInvalid(title) THEN "ValidationError"
    ELSE IF DescriptionInvalid(description) THEN "ValidationError"
    ELSE IF StatusInvalid(status) THEN "ValidationError"
    ELSE IF deadline = NoneDate THEN "ok"
    ELSE IF deadline = BadFormat THEN "ValidationError"
    ELSE IF DeadlineInPast(deadline, today) THEN "InvalidDeadlineError"
    ELSE "ok"

\* bookkeeping that stamps closed_at on every change to 'done'
ClosedAtForRestamped(status, closed_at, now) == IF status = "done" THEN now ELSE NoneDate

\* closed_at bookkeeping shared by Task.change_status and Task.edit
ClosedAtFor(status, closed_at, now) ==
    IF status = "done" /\ closed_at = NoneDate THEN now
    ELSE IF status # "done" THEN NoneDate
    ELSE closed_at

\* Task.change_status: the task object afterwards and "ok" or the error raised
TaskChangeStatus(t, new_status, now) ==
    IF new_status \notin VALID_STATUSES
    THEN [task |-> t, err |-> "ValidationError"]
    ELSE [task |-> [t EXCEPT !.status = new_status,
                             !.closed_at = ClosedAtFor(new_status, t.closed_at, now)],
          err |-> "ok"]

\* the except-ValueError handler of Task.edit: restores four attributes of the object
EditRollback(original, t) ==
    [t EXCEPT !.title = original.title,
              !.description = original.description,
              !.status = original.status,
              !.deadline = original.deadline]

\* the exceptions the handler of Task.edit catches: ValueError and its subclasses.
\* ValidationError and InvalidDeadlineError derive from ToDoError(Exception).
EditCatches(err) == err = "ValueError"

\* Task.edit, the title step
EditTitle(t, title) ==
    IF title = NoneSeq THEN [task |-> t, err |-> "ok"]
    ELSE [task |-> [t EXCEPT !.title = title],
          err |-> IF TitleInvalid(title) THEN "ValidationError" ELSE "ok"]

\* Task.edit, the description step
EditDescription(t, description) ==
    IF description = NoneSeq THEN [task |-> t, err |-> "ok"]
    ELSE [task |-> [t EXCEPT !.description = description],
          err |-> IF DescriptionInvalid(description) THEN "ValidationError" ELSE "ok"]

\* Task.edit, the status step
EditStatus(t, status, now) ==
    IF status = NoneStr THEN [task |-> t, err |-> "ok"]
    ELSE IF StatusInvalid(status)
    THEN [task |-> [t EXCEPT !.status = status], err |-> "ValidationError"]
    ELSE [task |-> [t EXCEPT !.status = status,
                             !.closed_at = ClosedAtFor(status, t.closed_at, now)],
          err |-> "ok"]

\* Task.edit, the deadline step
EditDeadline(t, deadline, today) ==
    IF deadline = NoneDate THEN [task |-> t, err |-> "ok"]
    ELSE IF deadline = BadFormat THEN [task |-> t, err |-> "ValueError"]
    ELSE [task |-> [t EXCEPT !.deadline = deadline],
          err |-> IF DeadlineInPast(deadline, today) THEN "InvalidDeadlineError" ELSE "ok"]

\* Task.edit: the task object afterwards and "ok" or the error raised
TaskEdit(t, title, description, status, deadline, now) ==
    LET r1 == EditTitle(t, title)
        r2 == IF r1.err = "ok" THEN EditDescription(r1.task, description) ELSE r1
        r3 == IF r2.err = "ok" THEN EditStatus(r2.task, status, now) ELSE r2
        r4 == IF r3.err = "ok" THEN EditDeadline(r3.task, deadline, now) ELSE r3
    IN  IF r4.err # "ok" /\ EditCatches(r4.err)
        THEN [task |-> EditRollback(t, r4.task), err |-> r4.err]
        ELSE r4

----------------------------------------------------------------------------
(* The SQLAlchemy session (db/session.py: autoflush=False) and the tables.  *)
(* A failed Task.edit leaves the changed attributes on the loaded object;   *)
(* nothing rolls the session back, so the next commit() on the session      *)
(* flushes them.  A flush that the database rejects (a value longer than    *)
(* its String(n) column) fails the commit and discards the pending changes; *)
(* the model continues with a new session over the committed rows.          *)

EmptyMap == <<>>

Put(f, k, v) == [x \in DOMAIN f \cup {k} |-> IF x = k THEN v ELSE f[x]]

Without(f, S) == [x \in DOMAIN f \ S |-> f[x]]

\* one attribute of a loaded object: the changed value if it has one, else the row's
Attr(rows, d, tid, f, changed, stored) ==
    IF tid \in DOMAIN d /\ f \in d[tid].changed THEN changed ELSE stored

\* Session.get(Task, id) on a loaded object: the row with the unflushed attribute changes
Loaded(rows, d, tid) ==
    LET o == IF tid \in DOMAIN d THEN d[tid].obj ELSE rows[tid]
        r == rows[tid]
    IN  [project_id |-> Attr(rows, d, tid, "project_id", o.project_id, r.project_id),
         title |-> Attr(rows, d, tid, "title", o.title, r.title),
         description |-> Attr(rows, d, tid, "description", o.description, r.description),
         status |-> Attr(rows, d, tid, "status", o.status, r.status),
         deadline |-> Attr(rows, d, tid, "deadline", o.deadline, r.deadline),
         closed_at |-> Attr(rows, d, tid, "closed_at", o.closed_at, r.closed_at),
         created_at |-> Attr(rows, d, tid, "created_at", o.created_at, r.created_at)]

\* TaskRepository.get_by_id for a stored task, through the session
View(tid) == Loaded(tasks, dirty, tid)

\* the attributes of a loaded object that differ from its row: what a flush would UPDATE
Changes(row, obj) ==
    (IF obj.project_id # row.project_id THEN {"project_id"} ELSE {})
    \cup (IF obj.title # row.title THEN {"title"} ELSE {})
    \cup (IF obj.description # row.description THEN {"description"} ELSE {})
    \cup (IF obj.status # row.status THEN {"status"} ELSE {})
    \cup (IF obj.deadline # row.deadline THEN {"deadline"} ELSE {})
    \cup (IF obj.closed_at # row.closed_at THEN {"closed_at"} ELSE {})
    \cup (IF obj.created_at # row.created_at THEN {"created_at"} ELSE {})

\* the session's pending changes once the object of task tid holds obj
Track(d, tid, obj) ==
    IF Changes(tasks[tid], obj) = {} THEN Without(d, {tid})
    ELSE Put(d, tid, [changed |-> Changes(tasks[tid], obj), obj |-> obj])

\* the session's objects after another session committed rows
Reloaded(rows, d) ==
    [tid \in DOMAIN d |-> [changed |-> d[tid].changed, obj |-> Loaded(rows, d, tid)]]

\* columns title String(30) and status String(10) of table tasks
TaskRowRejected(row) == Len(row.title) > MaxTitleLen \/ Len(row.status) > MaxStatusColumnLen

\* column name String(30) of table projects
ProjectRowRejected(row) == Len(row.name) > MaxTitleLen

\* the rows of table tasks after flushing the pending changes d over rows
Flushed(rows, d) == [tid \in DOMAIN rows |-> Loaded(rows, d, tid)]

\* Session.commit() as far as table tasks goes: TRUE when the flush is accepted
FlushAccepted(rows, d) ==
    \A tid \in DOMAIN d \cap DOMAIN rows : ~TaskRowRejected(Loaded(rows, d, tid))

\* a count that leaves out the WHERE project_id clause
get_task_count_unscoped(project_id) == Cardinality(DOMAIN tasks)

\* TaskRepository.get_task_count_by_project
get_task_count_by_project(project_id) ==
    Cardinality({tid \in DOMAIN tasks : tasks[tid].project_id = project_id})

\* a count that is one short
get_project_count_short == Cardinality(DOMAIN projects) - 1

\* ProjectRepository.get_project_count
get_project_count == Cardinality(DOMAIN projects)

\* a lookup that never finds a row
get_by_name_blind(name) == {}

\* ProjectRepository.get_by_name: the ids of the rows with that name
get_by_name(name) == {pid \in DOMAIN projects : projects[pid].name = name}

\* a query that returns every task
get_overdue_tasks_unfiltered(rows, today) == DOMAIN rows

\* TaskRepository.get_overdue_tasks over the committed rows
get_overdue_tasks(rows, today) ==
    {tid \in DOMAIN rows :
        /\ rows[tid].deadline # NoneDate
        /\ rows[tid].deadline < today
        /\ rows[tid].status # "done"
        /\ rows[tid].closed_at = NoneDate}

\* TaskRepository.close_overdue_tasks in a fresh session: the rows afterwards and the count
close_overdue_tasks(rows, today) ==
    LET overdue == get_overdue_tasks(rows, today)
        closed == {tid \in overdue : TaskChangeStatus(rows[tid], "done", today).err = "ok"}
    IN  [rows |-> [tid \in DOMAIN rows |->
                      IF tid \in closed THEN TaskChangeStatus(rows[tid], "done", today).task
                      ELSE rows[tid]],
         count |-> Cardinality(closed)]

\* autoclose_overdue_tasks: the rows afterwards and the value returned
autoclose_overdue_tasks(rows, today) ==
    IF get_overdue_tasks(rows, today) = {}
    THEN [rows |-> rows, count |-> 0]
    ELSE close_overdue_tasks(rows, today)

\* the call that ran last, "ok" or the error it raised, and the number it
\* returned (0 when it returns none)
Call(op, err, n) == [op |-> op, err |-> err, n |-> n]

----------------------------------------------------------------------------
(* Inputs *)

ProjectIds == 1..MaxProjectId
TaskIds == 1..MaxTaskId

NameInputs == {<<"p">>, <<"q">>, Blank, Long31}
ProjectDescriptionInputs == {<<>>, Long151}
TitleInputs == {<<"a">>, Blank, Long31}
DescriptionInputs == {<<"d">>}
StatusInputs == {"todo", "doing", "done", "bogus"}
DeadlineInputs == {NoneDate, BadFormat, clock - 1, clock}

\* Python truthiness of an optional string argument
Truthy(s) == s # NoneSeq /\ s # <<>>

----------------------------------------------------------------------------
(* repositories/project_repository.py *)

\* a create that looks at the name before the count
ProjectCreateErrorNameFirst(name, description) ==
    IF get_by_name(name) # {} THEN "ProjectNameExistsError"
    ELSE IF get_project_count >= MAX_NUMBER_OF_PROJECT THEN "ProjectLimitExceededError"
    ELSE IF ProjectInit(name, description) # "ok" THEN ProjectInit(name, description)
    ELSE IF ~FlushAccepted(tasks, dirty) THEN "DataError"
    ELSE "ok"

\* ProjectRepository.create: "ok" or the error it raises
ProjectCreateError(name, description) ==
    IF get_project_count >= MAX_NUMBER_OF_PROJECT THEN "ProjectLimitExceededError"
    ELSE IF get_by_name(name) # {} THEN "ProjectNameExistsError"
    ELSE IF ProjectInit(name, description) # "ok" THEN ProjectInit(name, description)
    ELSE IF ~FlushAccepted(tasks, dirty) THEN "DataError"
    ELSE "ok"

\* ProjectRepository.create
ProjectCreate(name, description) ==
    /\ last' = Call("project_create", ProjectCreateError(name, description), 0)
    /\ IF ProjectCreateError(name, description) = "ok"
       THEN /\ next_pid <= MaxProjectId
            /\ projects' = Put(projects, next_pid, [name |-> name, description |-> description])
            /\ tasks' = Flushed(tasks, dirty)
            /\ dirty' = EmptyMap
            /\ next_pid' = next_pid + 1
       ELSE IF ProjectCreateError(name, description) = "DataError"
       THEN /\ dirty' = EmptyMap
            /\ UNCHANGED <<projects, tasks, next_pid>>
       ELSE UNCHANGED <<projects, tasks, dirty, next_pid>>
    /\ UNCHANGED <<next_tid, clock>>

\* the row ProjectRepository.update assigns before it commits
ProjectAssigned(row, name, description) ==
    [name |-> IF Truthy(name) /\ name # row.name THEN name ELSE row.name,
     description |-> IF description # NoneSeq THEN description ELSE row.description]

\* ProjectRepository.update: "ok" or the error it raises
ProjectUpdateError(project_id, name, description) ==
    IF project_id \notin DOMAIN projects THEN "ProjectNotFoundError"
    ELSE IF Truthy(name) /\ name # projects[project_id].name /\ get_by_name(name) # {}
    THEN "ProjectNameExistsError"
    ELSE IF \/ ProjectRowRejected(ProjectAssigned(projects[project_id], name, description))
            \/ ~FlushAccepted(tasks, dirty)
    THEN "DataError"
    ELSE "ok"

\* ProjectRepository.update
ProjectUpdate(project_id, name, description) ==
    /\ last' = Call("project_update", ProjectUpdateError(project_id, name, description), 0)
    /\ IF ProjectUpdateError(project_id, name, description) = "ok"
       THEN /\ projects' = [projects EXCEPT
                               ![project_id] = ProjectAssigned(projects[project_id], name, description)]
            /\ tasks' = Flushed(tasks, dirty)
            /\ dirty' = EmptyMap
       ELSE IF ProjectUpdateError(project_id, name, description) = "DataError"
       THEN /\ dirty' = EmptyMap
            /\ UNCHANGED <<projects, tasks>>
       ELSE UNCHANGED <<projects, tasks, dirty>>
    /\ UNCHANGED <<next_pid, next_tid, clock>>

\* a relationship without the cascade
CascadeNone(project_id) == {}

\* the tasks Project.tasks (cascade="all, delete-orphan") deletes with the project
CascadeOf(project_id) == {tid \in DOMAIN tasks : tasks[tid].project_id = project_id}

\* ProjectRepository.delete: "ok" or the error it raises
ProjectDeleteError(project_id) ==
    IF project_id \notin DOMAIN projects THEN "ProjectNotFoundError"
    ELSE IF ~FlushAccepted(Without(tasks, CascadeOf(project_id)), dirty) THEN "DataError"
    ELSE "ok"

\* ProjectRepository.delete
ProjectDelete(project_id) ==
    /\ last' = Call("project_delete", ProjectDeleteError(project_id), 0)
    /\ IF ProjectDeleteError(project_id) = "ok"
       THEN /\ projects' = Without(projects, {project_id})
            /\ tasks' = Flushed(Without(tasks, CascadeOf(project_id)), dirty)
            /\ dirty' = EmptyMap
       ELSE IF ProjectDeleteError(project_id) = "DataError"
       THEN /\ dirty' = EmptyMap
            /\ UNCHANGED <<projects, tasks>>
       ELSE UNCHANGED <<projects, tasks, dirty>>
    /\ UNCHANGED <<next_pid, next_tid, clock>>

----------------------------------------------------------------------------
(* repositories/task_repository.py *)

\* a constructor that files the task under another project id
NewTaskElsewhere(project_id, title, description, status, deadline, now) ==
    [project_id |-> project_id + 1, title |-> title, description |-> description,
     status |-> status, deadline |-> deadline, closed_at |-> NoneDate, created_at |-> now]

\* the row TaskRepository.create inserts
NewTask(project_id, title, description, status, deadline, now) ==
    [project_id |-> project_id, title |-> title, description |-> description,
     status |-> status, deadline |-> deadline, closed_at |-> NoneDate, created_at |-> now]

\* `status or "todo"` in TaskRepository.create
StatusOrDefault(status) == IF status = NoneStr THEN "todo" ELSE status

\* TaskRepository.create: "ok" or the error it raises
TaskCreateError(project_id, title, description, status, deadline) ==
    IF project_id \notin DOMAIN projects THEN "ProjectNotFoundError"
    ELSE IF get_task_count_by_project(project_id) >= MAX_NUMBER_OF_TASK THEN "TaskLimitExceededError"
    ELSE IF TaskInit(title, description, StatusOrDefault(status), deadline, clock) # "ok"
    THEN TaskInit(title, description, StatusOrDefault(status), deadline, clock)
    ELSE IF ~FlushAccepted(tasks, dirty) THEN "DataError"
    ELSE "ok"

\* TaskRepository.create
TaskCreate(project_id, title, description, status, deadline) ==
    /\ last' = Call("task_create",
                    TaskCreateError(project_id, title, description, status, deadline), 0)
    /\ IF TaskCreateError(project_id, title, description, status, deadline) = "ok"
       THEN /\ next_tid <= MaxTaskId
            /\ tasks' = Put(Flushed(tasks, dirty), next_tid,
                            NewTask(project_id, title, description, StatusOrDefault(status),
                                    deadline, clock))
            /\ dirty' = EmptyMap
            /\ next_tid' = next_tid + 1
       ELSE IF TaskCreateError(project_id, title, description, status, deadline) = "DataError"
       THEN /\ dirty' = EmptyMap
            /\ UNCHANGED <<tasks, next_tid>>
       ELSE UNCHANGED <<tasks, dirty, next_tid>>
    /\ UNCHANGED <<projects, next_pid, clock>>

\* the object of task task_id after Task.edit ran on it, with "ok" or the error raised
Edited(task_id, title, description, status, deadline) ==
    TaskEdit(View(task_id), title, description, status, deadline, clock)

\* TaskRepository.update: "ok" or the error it raises
TaskUpdateError(task_id, title, description, status, deadline) ==
    IF task_id \notin DOMAIN tasks THEN "TaskNotFoundError"
    ELSE LET r == Edited(task_id, title, description, status, deadline)
         IN  IF r.err # "ok" THEN r.err
             ELSE IF ~FlushAccepted(tasks, Track(dirty, task_id, r.task)) THEN "DataError"
             ELSE "ok"

\* TaskRepository.update
TaskUpdate(task_id, title, description, status, deadline) ==
    /\ IF task_id \notin DOMAIN tasks
       THEN /\ last' = Call("task_update", "TaskNotFoundError", 0)
            /\ UNCHANGED <<tasks, dirty>>
       ELSE LET r == Edited(task_id, title, description, status, deadline)
                d == Track(dirty, task_id, r.task)
            IN  IF r.err # "ok"
                THEN /\ last' = Call("task_update", r.err, 0)
                     /\ dirty' = d
                     /\ UNCHANGED tasks
                ELSE IF ~FlushAccepted(tasks, d)
                THEN /\ last' = Call("task_update", "DataError", 0)
                     /\ dirty' = EmptyMap
                     /\ UNCHANGED tasks
                ELSE /\ last' = Call("task_update", "ok", 0)
                     /\ tasks' = Flushed(tasks, d)
                     /\ dirty' = EmptyMap
    /\ UNCHANGED <<projects, next_pid, next_tid, clock>>

\* TaskRepository.change_status: "ok" or the error it raises
TaskStatusError(task_id, new_status) ==
    IF task_id \notin DOMAIN tasks THEN "TaskNotFoundError"
    ELSE IF TaskChangeStatus(View(task_id), new_status, clock).err # "ok"
    THEN TaskChangeStatus(View(task_id), new_status, clock).err
    ELSE IF ~FlushAccepted(tasks, Track(dirty, task_id,
                                        TaskChangeStatus(View(task_id), new_status, clock).task))
    THEN "DataError"
    ELSE "ok"

\* TaskRepository.change_status
TaskStatus(task_id, new_status) ==
    /\ last' = Call("task_status", TaskStatusError(task_id, new_status), 0)
    /\ IF TaskStatusError(task_id, new_status) = "ok"
       THEN /\ tasks' = Flushed(tasks, Track(dirty, task_id,
                                             TaskChangeStatus(View(task_id), new_status, clock).task))
            /\ dirty' = EmptyMap
       ELSE IF TaskStatusError(task_id, new_status) = "DataError"
       THEN /\ dirty' = EmptyMap
            /\ UNCHANGED tasks
       ELSE UNCHANGED <<tasks, dirty>>
    /\ UNCHANGED <<projects, next_pid, next_tid, clock>>

\* TaskRepository.delete: "ok" or the error it raises
TaskDeleteError(task_id) ==
    IF task_id \notin DOMAIN tasks THEN "TaskNotFoundError"
    ELSE IF ~FlushAccepted(Without(tasks, {task_id}), dirty) THEN "DataError"
    ELSE "ok"

\* TaskRepository.delete
TaskDelete(task_id) ==
    /\ last' = Call("task_delete", TaskDeleteError(task_id), 0)
    /\ IF TaskDeleteError(task_id) = "ok"
       THEN /\ tasks' = Flushed(Without(tasks, {task_id}), Without(dirty, {task_id}))
            /\ dirty' = EmptyMap
       ELSE IF TaskDeleteError(task_id) = "DataError"
       THEN /\ dirty' = EmptyMap
            /\ UNCHANGED tasks
       ELSE UNCHANGED <<tasks, dirty>>
    /\ UNCHANGED <<projects, next_pid, next_tid, clock>>

----------------------------------------------------------------------------
(* services/task_service.py *)

\* TaskService.list_tasks: "ok" or the error raised
list_tasks(project_id) ==
    IF project_id \notin DOMAIN projects THEN "ProjectNotFoundError" ELSE "ok"

\* TaskService.get_task: "ok" or the error raised
get_task(project_id, task_id) ==
    IF project_id \notin DOMAIN projects THEN "ProjectNotFoundError"
    ELSE IF task_id \notin DOMAIN tasks \/ tasks[task_id].project_id # project_id
    THEN "TaskNotFoundError"
    ELSE "ok"

----------------------------------------------------------------------------
(* services/task_service.py: the calls that name a project and a task *)

\* a check that leaves out the project_id comparison
OwnedByAny(project_id, task_id) == task_id \in DOMAIN tasks

\* `if not task or task.project_id != project_id` is passed
OwnedBy(project_id, task_id) ==
    task_id \in DOMAIN tasks /\ View(task_id).project_id = project_id

\* TaskService.create_task: "ok" or the error raised
create_task(project_id, title, description, status, deadline) ==
    TaskCreateError(project_id, title, description, status, deadline)

\* TaskService.update_task: "ok" or the error raised
update_task(project_id, task_id, title, description, status, deadline) ==
    IF ~OwnedBy(project_id, task_id) THEN "TaskNotFoundError"
    ELSE TaskUpdateError(task_id, title, description, status, deadline)

\* TaskService.change_task_status: "ok" or the error raised
change_task_status(project_id, task_id, new_status) ==
    IF ~OwnedBy(project_id, task_id) THEN "TaskNotFoundError"
    ELSE TaskStatusError(task_id, new_status)

\* TaskService.delete_task: "ok" or the error raised
delete_task(project_id, task_id) ==
    IF ~OwnedBy(project_id, task_id) THEN "TaskNotFoundError"
    ELSE TaskDeleteError(task_id)

\* a service call that raised before it reached the repository
Raised(op, err) ==
    /\ last' = Call(op, err, 0)
    /\ UNCHANGED <<projects, tasks, dirty, next_pid, next_tid, clock>>

\* TaskService.update_task as a step
UpdateTask(project_id, task_id, title, description, status, deadline) ==
    IF OwnedBy(project_id, task_id)
    THEN TaskUpdate(task_id, title, description, status, deadline)
    ELSE Raised("update_task", "TaskNotFoundError")

\* TaskService.change_task_status as a step
ChangeTaskStatus(project_id, task_id, new_status) ==
    IF OwnedBy(project_id, task_id)
    THEN TaskStatus(task_id, new_status)
    ELSE Raised("change_task_status", "TaskNotFoundError")

\* TaskService.delete_task as a step
DeleteTask(project_id, task_id) ==
    IF OwnedBy(project_id, task_id)
    THEN TaskDelete(task_id)
    ELSE Raised("delete_task", "TaskNotFoundError")

\* TaskService.get_task as a step: it reads and returns
GetTask(project_id, task_id) == Raised("get_task", get_task(project_id, task_id))

\* TaskService.list_tasks as a step: it reads and returns
ListTasks(project_id) == Raised("list_tasks", list_tasks(project_id))

----------------------------------------------------------------------------
(* commands/autoclose_overdue.py, run to completion (main) *)

Autoclose ==
    /\ tasks' = autoclose_overdue_tasks(tasks, clock).rows
    /\ last' = Call("autoclose", "ok", autoclose_overdue_tasks(tasks, clock).count)
    /\ dirty' = Reloaded(autoclose_overdue_tasks(tasks, clock).rows, dirty)
    /\ UNCHANGED <<projects, next_pid, next_tid, clock>>

\* midnight: date.today() advances
Tick ==
    /\ clock < MaxDay
    /\ clock' = clock + 1
    /\ last' = Call("tick", "ok", 0)
    /\ UNCHANGED <<projects, tasks, dirty, next_pid, next_tid>>

----------------------------------------------------------------------------
(* Sessions of their own: get_session() per request handler and per pass *)

\* a session between its queries and its commit: the call it runs, the project
\* rows it added (session.new), the task objects it changed, and the count kept
Session(op, new, loaded, count) ==
    [op |-> op, new |-> new, loaded |-> loaded, count |-> count]

\* the session autoclose_overdue_tasks opens
PassSession == 0

\* autoclose_overdue_tasks up to the commit: the overdue query and, in
\* close_overdue_tasks, change_status("done") on every task it returned
PassBegin ==
    /\ PassSession \notin DOMAIN sessions
    /\ IF get_overdue_tasks(tasks, clock) = {}
       THEN /\ last' = Call("autoclose", "ok", 0)
            /\ UNCHANGED sessions
       ELSE LET overdue == get_overdue_tasks(tasks, clock)
                closed == {tid \in overdue :
                              TaskChangeStatus(tasks[tid], "done", clock).err = "ok"}
            IN  /\ sessions' = Put(sessions, PassSession,
                       Session("autoclose", {},
                               [tid \in closed |-> TaskChangeStatus(tasks[tid], "done", clock).task],
                               Cardinality(closed)))
                /\ UNCHANGED last
    /\ UNCHANGED <<projects, tasks, dirty, next_pid, next_tid, clock>>

\* a flush that never notices a deleted row
StaleRowsNone(loaded) == {}

\* task objects of a session whose row another session deleted: the UPDATE
\* matches no row and the flush raises StaleDataError
StaleRows(loaded) == DOMAIN loaded \ DOMAIN tasks

\* the rows after a session's UPDATEs of status and closed_at
Updated(rows, loaded) ==
    [tid \in DOMAIN rows |->
        IF tid \in DOMAIN loaded
        THEN [rows[tid] EXCEPT !.status = loaded[tid].status,
                               !.closed_at = loaded[tid].closed_at]
        ELSE rows[tid]]

\* `if closed_count > 0: self.session.commit()`, then the return, or the except
\* branch of autoclose_overdue_tasks: rollback and return 0
PassCommit ==
    /\ PassSession \in DOMAIN sessions
    /\ IF sessions[PassSession].count > 0 /\ StaleRows(sessions[PassSession].loaded) # {}
       THEN /\ last' = Call("autoclose", "StaleDataError", 0)
            /\ UNCHANGED <<tasks, dirty>>
       ELSE /\ tasks' = Updated(tasks, sessions[PassSession].loaded)
            /\ dirty' = Reloaded(Updated(tasks, sessions[PassSession].loaded), dirty)
            /\ last' = Call("autoclose", "ok", sessions[PassSession].count)
    /\ sessions' = Without(sessions, {PassSession})
    /\ UNCHANGED <<projects, next_pid, next_tid, clock>>

\* ProjectRepository.create up to the commit, in a handler's own session: the
\* count check, the name check, Project(...) and session.add
CreateCheck(h, name, description) ==
    /\ h \notin DOMAIN sessions
    /\ IF get_project_count >= MAX_NUMBER_OF_PROJECT
       THEN last' = Call("project_create", "ProjectLimitExceededError", 0) /\ UNCHANGED sessions
       ELSE IF get_by_name(name) # {}
       THEN last' = Call("project_create", "ProjectNameExistsError", 0) /\ UNCHANGED sessions
       ELSE IF ProjectInit(name, description) # "ok"
       THEN last' = Call("project_create", ProjectInit(name, description), 0) /\ UNCHANGED sessions
       ELSE /\ sessions' = Put(sessions, h,
                   Session("project_create", {[name |-> name, description |-> description]},
                           EmptyMap, 0))
            /\ UNCHANGED last
    /\ UNCHANGED <<projects, tasks, dirty, next_pid, next_tid, clock>>

\* a table without the unique constraint
UniqueViolationNever(row) == FALSE

\* name: unique=True; the INSERT of a name a stored project holds is rejected
UniqueViolation(row) == \E pid \in DOMAIN projects : projects[pid].name = row.name

\* self.session.commit() of ProjectRepository.create in a handler's session
CreateCommit(h) ==
    /\ h \in DOMAIN sessions
    /\ sessions[h].op = "project_create"
    /\ IF \E row \in sessions[h].new : UniqueViolation(row)
       THEN /\ last' = Call("project_create", "IntegrityError", 0)
            /\ UNCHANGED <<projects, next_pid>>
       ELSE /\ next_pid <= MaxProjectId
            /\ \E row \in sessions[h].new : projects' = Put(projects, next_pid, row)
            /\ next_pid' = next_pid + 1
            /\ last' = Call("project_create", "ok", 0)
    /\ sessions' = Without(sessions, {h})
    /\ UNCHANGED <<tasks, dirty, next_tid, clock>>

----------------------------------------------------------------------------
(* The store specification: repository and service calls on one session *)

StoreInit ==
    /\ projects = EmptyMap
    /\ tasks = EmptyMap
    /\ dirty = EmptyMap
    /\ next_pid = 1
    /\ next_tid = 1
    /\ clock = 1
    /\ last = Call("init", "ok", 0)

SchedulerInit ==
    /\ is_running = FALSE
    /\ stop_event = FALSE
    /\ jobs = {}
    /\ due = {}
    /\ threads = EmptyMap
    /\ cur_thread = 0
    /\ caller = [pc |-> "idle", todo |-> {}]
    /\ mains = 0
    /\ stopped = FALSE

Init == StoreInit /\ SchedulerInit /\ sessions = EmptyMap /\ storage = <<>>

----------------------------------------------------------------------------
(* commands/scheduler.py: TaskScheduler, the global `schedule` job list and  *)
(* the threads that run passes.  Every statement that reads or writes shared *)
(* state is a step of its own; nothing in the module takes a lock.           *)

ThreadIds == 1..MaxThreads

\* the job schedule.run_pending / run_all runs next: the earliest registered
NextJob(todo) == CHOOSE j \in todo : \A k \in todo : j <= k

\* the number of autoclose_overdue_tasks passes in progress
PassesRunning ==
    Cardinality({t \in DOMAIN threads : threads[t].pc = "pass"})
    + (IF caller.pc = "once_pass" THEN 1 ELSE 0)
    + mains

\* a job function returned: schedule reschedules the job (it is no longer due)
JobDone(j) == due' = due \ {j}

\* TaskScheduler.start, `if self.is_running: return`
StartCheck ==
    /\ caller.pc = "idle"
    /\ Cardinality(DOMAIN threads) < MaxThreads
    /\ IF is_running
       THEN UNCHANGED <<caller, stopped>>
       ELSE /\ caller' = [caller EXCEPT !.pc = "start_launch"]
            /\ stopped' = FALSE
    /\ UNCHANGED <<is_running, stop_event, jobs, due, threads, cur_thread, mains>>
    /\ UNCHANGED <<storeVars, sessions, storage>>

\* TaskScheduler.start: stop_event.clear(), Thread(target=run_scheduler).start()
StartLaunch ==
    /\ caller.pc = "start_launch"
    /\ stop_event' = FALSE
    /\ threads' = Put(threads, Cardinality(DOMAIN threads) + 1, [pc |-> "created", todo |-> {}])
    /\ cur_thread' = Cardinality(DOMAIN threads) + 1
    /\ caller' = [caller EXCEPT !.pc = "idle"]
    /\ UNCHANGED <<is_running, jobs, due, mains, stopped>>
    /\ UNCHANGED <<storeVars, sessions, storage>>

\* TaskScheduler.stop, `if not self.is_running: return`
StopCheck ==
    /\ caller.pc = "idle"
    /\ cur_thread # 0
    /\ stopped' = TRUE
    /\ caller' = [caller EXCEPT !.pc = IF is_running THEN "stop_signal" ELSE "idle"]
    /\ UNCHANGED <<is_running, stop_event, jobs, due, threads, cur_thread, mains>>
    /\ UNCHANGED <<storeVars, sessions, storage>>

\* TaskScheduler.stop: is_running = False; stop_event.set()
StopSignal ==
    /\ caller.pc = "stop_signal"
    /\ is_running' = FALSE
    /\ stop_event' = TRUE
    /\ caller' = [caller EXCEPT !.pc = "stop_join"]
    /\ UNCHANGED <<jobs, due, threads, cur_thread, mains, stopped>>
    /\ UNCHANGED <<storeVars, sessions, storage>>

\* TaskScheduler.stop: thread.join(timeout=5) returns when the thread has ended
\* or when the five seconds are over
StopJoin ==
    /\ caller.pc = "stop_join"
    /\ \/ threads[cur_thread].pc = "dead"
       \/ threads[cur_thread].pc # "dead"
    /\ caller' = [caller EXCEPT !.pc = "stop_clear"]
    /\ UNCHANGED <<is_running, stop_event, jobs, due, threads, cur_thread, mains, stopped>>
    /\ UNCHANGED <<storeVars, sessions, storage>>

\* TaskScheduler.stop: schedule.clear()
StopClear ==
    /\ caller.pc = "stop_clear"
    /\ jobs' = {}
    /\ due' = {}
    /\ caller' = [caller EXCEPT !.pc = "idle"]
    /\ UNCHANGED <<is_running, stop_event, threads, cur_thread, mains, stopped>>
    /\ UNCHANGED <<storeVars, sessions, storage>>

\* run_once: schedule.run_all() takes a copy of the job list
RunOnce ==
    /\ caller.pc = "idle"
    /\ caller' = [pc |-> "run_all", todo |-> jobs]
    /\ UNCHANGED <<is_running, stop_event, jobs, due, threads, cur_thread, mains, stopped>>
    /\ UNCHANGED <<storeVars, sessions, storage>>

\* run_once: schedule.run_all() calls the next job, or returns
RunAllStep ==
    /\ caller.pc = "run_all"
    /\ caller' = IF caller.todo = {} THEN [pc |-> "idle", todo |-> {}]
                 ELSE [caller EXCEPT !.pc = "once_pass"]
    /\ UNCHANGED <<is_running, stop_event, jobs, due, threads, cur_thread, mains, stopped>>
    /\ UNCHANGED <<storeVars, sessions, storage>>

\* run_once: the pass the main thread runs comes to its end
RunAllPassEnd ==
    /\ caller.pc = "once_pass"
    /\ caller' = [pc |-> "run_all", todo |-> caller.todo \ {NextJob(caller.todo)}]
    /\ JobDone(NextJob(caller.todo))
    /\ Autoclose /\ UNCHANGED <<sessions, storage>>
    /\ UNCHANGED <<is_running, stop_event, jobs, threads, cur_thread, mains, stopped>>

\* run_scheduler: self.is_running = True
ThreadBegin(t) ==
    /\ t \in DOMAIN threads
    /\ threads[t].pc = "created"
    /\ is_running' = TRUE
    /\ threads' = [threads EXCEPT ![t].pc = "setup"]
    /\ UNCHANGED <<stop_event, jobs, due, cur_thread, caller, mains, stopped>>
    /\ UNCHANGED <<storeVars, sessions, storage>>

\* setup_schedules: schedule.every(15).minutes.do(autoclose_overdue_tasks)
ThreadSetup(t) ==
    /\ t \in DOMAIN threads
    /\ threads[t].pc = "setup"
    /\ jobs' = jobs \cup {t}
    /\ threads' = [threads EXCEPT ![t].pc = "loop"]
    /\ UNCHANGED <<is_running, stop_event, due, cur_thread, caller, mains, stopped>>
    /\ UNCHANGED <<storeVars, sessions, storage>>

\* run_scheduler: the while test, then schedule.run_pending() collects the due jobs
ThreadLoop(t) ==
    /\ t \in DOMAIN threads
    /\ threads[t].pc = "loop"
    /\ threads' = [threads EXCEPT ![t] =
                      IF is_running /\ ~stop_event
                      THEN [pc |-> "pending", todo |-> due]
                      ELSE [pc |-> "finally", todo |-> {}]]
    /\ UNCHANGED <<is_running, stop_event, jobs, due, cur_thread, caller, mains, stopped>>
    /\ UNCHANGED <<storeVars, sessions, storage>>

\* schedule.run_pending() calls the next due job, or returns and
\* stop_event.wait(timeout=60) ends
ThreadPending(t) ==
    /\ t \in DOMAIN threads
    /\ threads[t].pc = "pending"
    /\ threads' = [threads EXCEPT ![t].pc = IF threads[t].todo = {} THEN "loop" ELSE "pass"]
    /\ UNCHANGED <<is_running, stop_event, jobs, due, cur_thread, caller, mains, stopped>>
    /\ UNCHANGED <<storeVars, sessions, storage>>

\* the pass a scheduler thread runs comes to its end
ThreadPassEnd(t) ==
    /\ t \in DOMAIN threads
    /\ threads[t].pc = "pass"
    /\ threads' = [threads EXCEPT ![t] =
                      [pc |-> "pending", todo |-> threads[t].todo \ {NextJob(threads[t].todo)}]]
    /\ JobDone(NextJob(threads[t].todo))
    /\ Autoclose /\ UNCHANGED <<sessions, storage>>
    /\ UNCHANGED <<is_running, stop_event, jobs, cur_thread, caller, mains, stopped>>

\* run_scheduler: finally: self.is_running = False
ThreadFinally(t) ==
    /\ t \in DOMAIN threads
    /\ threads[t].pc = "finally"
    /\ is_running' = FALSE
    /\ threads' = [threads EXCEPT ![t].pc = "dead"]
    /\ UNCHANGED <<stop_event, jobs, due, cur_thread, caller, mains, stopped>>
    /\ UNCHANGED <<storeVars, sessions, storage>>

\* one step of scheduler thread t
ThreadStep(t) ==
    \/ ThreadBegin(t)
    \/ ThreadSetup(t)
    \/ ThreadLoop(t)
    \/ ThreadPending(t)
    \/ ThreadPassEnd(t)
    \/ ThreadFinally(t)

\* fifteen minutes have gone by for a registered job
Elapse == \E j \in jobs \ due :
    /\ due' = due \cup {j}
    /\ UNCHANGED <<is_running, stop_event, jobs, threads, cur_thread, caller, mains, stopped>>
    /\ UNCHANGED <<storeVars, sessions, storage>>

\* autoclose_overdue.main starts a pass in a process of its own
MainBegin ==
    /\ mains < MaxMains
    /\ mains' = mains + 1
    /\ UNCHANGED <<is_running, stop_event, jobs, due, threads, cur_thread, caller, stopped>>
    /\ UNCHANGED <<storeVars, sessions, storage>>

\* autoclose_overdue.main: its pass comes to its end
MainEnd ==
    /\ mains > 0
    /\ mains' = mains - 1
    /\ Autoclose /\ UNCHANGED <<sessions, storage>>
    /\ UNCHANGED <<is_running, stop_event, jobs, due, threads, cur_thread, caller, stopped>>

\* the steps that carry on a stop() or run_once() already under way
CallerContinue == StartLaunch \/ StopSignal \/ StopJoin \/ StopClear \/ RunAllStep \/ RunAllPassEnd

SchedNext ==
    \/ StartCheck
    \/ StartLaunch
    \/ StopCheck
    \/ StopSignal
    \/ StopJoin
    \/ StopClear
    \/ RunOnce
    \/ RunAllStep
    \/ RunAllPassEnd
    \/ \E t \in ThreadIds : ThreadBegin(t)
    \/ \E t \in ThreadIds : ThreadSetup(t)
    \/ \E t \in ThreadIds : ThreadLoop(t)
    \/ \E t \in ThreadIds : ThreadPending(t)
    \/ \E t \in ThreadIds : ThreadPassEnd(t)
    \/ \E t \in ThreadIds : ThreadFinally(t)
    \/ Elapse
    \/ MainBegin
    \/ MainEnd

\* every live thread keeps running: the interpreter schedules each thread, and
\* stop_event.wait(timeout=60) always returns
SchedFairness ==
    /\ \A t \in ThreadIds : WF_vars(ThreadStep(t))
    /\ WF_vars(CallerContinue)
    /\ WF_vars(MainEnd)

SchedSpec == Init /\ [][SchedNext]_vars /\ SchedFairness

----------------------------------------------------------------------------
(* CrudSpec: projects and tasks are created, renamed and deleted; no task is *)
(* edited, so the session never holds unflushed changes.                     *)

CrudProjectCreate == \E name \in NameInputs, description \in ProjectDescriptionInputs :
    ProjectCreate(name, description) /\ UNCHANGED <<schedVars, sessions, storage>>

CrudProjectUpdate == \E project_id \in ProjectIds, name \in NameInputs \cup {NoneSeq} :
    ProjectUpdate(project_id, name, NoneSeq) /\ UNCHANGED <<schedVars, sessions, storage>>

CrudProjectDelete == \E project_id \in ProjectIds :
    ProjectDelete(project_id) /\ UNCHANGED <<schedVars, sessions, storage>>

CrudTaskCreate == \E project_id \in ProjectIds, title \in {<<"a">>, Long31} :
    TaskCreate(project_id, title, <<>>, NoneStr, NoneDate) /\ UNCHANGED <<schedVars, sessions, storage>>

CrudTaskDelete == \E task_id \in TaskIds :
    TaskDelete(task_id) /\ UNCHANGED <<schedVars, sessions, storage>>

CrudNext ==
    \/ CrudProjectCreate
    \/ CrudProjectUpdate
    \/ CrudProjectDelete
    \/ CrudTaskCreate
    \/ CrudTaskDelete

CrudSpec == Init /\ [][CrudNext]_vars

----------------------------------------------------------------------------
(* Spec: the task lifecycle on one session, with the reconciliation job      *)

DoProjectCreate ==
    /\ next_pid <= MaxEditedProjects
    /\ ProjectCreate(<<"p">>, <<>>)
    /\ UNCHANGED <<schedVars, sessions, storage>>

DoProjectDelete == \E project_id \in 1..MaxEditedProjects :
    ProjectDelete(project_id) /\ UNCHANGED <<schedVars, sessions, storage>>

DoTaskCreate ==
    /\ next_tid <= MaxEditedTasks
    /\ \E project_id \in 1..MaxEditedProjects, title \in {<<"a">>, Long31},
          status \in {NoneStr, "done", "bogus"}, deadline \in DeadlineInputs :
        TaskCreate(project_id, title, <<>>, status, deadline) /\ UNCHANGED <<schedVars, sessions, storage>>

DoTaskUpdate == \E task_id \in 1..MaxEditedTasks, title \in {Blank, Long31, NoneSeq},
                   description \in DescriptionInputs \cup {NoneSeq},
                   status \in {NoneStr, "done", "bogus"}, deadline \in DeadlineInputs :
    TaskUpdate(task_id, title, description, status, deadline) /\ UNCHANGED <<schedVars, sessions, storage>>

DoTaskStatus == \E task_id \in 1..MaxEditedTasks, new_status \in StatusInputs :
    TaskStatus(task_id, new_status) /\ UNCHANGED <<schedVars, sessions, storage>>

DoTaskDelete == \E task_id \in 1..MaxEditedTasks :
    TaskDelete(task_id) /\ UNCHANGED <<schedVars, sessions, storage>>

DoAutoclose == Autoclose /\ UNCHANGED <<schedVars, sessions, storage>>

DoTick == Tick /\ UNCHANGED <<schedVars, sessions, storage>>

Next ==
    \/ DoProjectCreate
    \/ DoProjectDelete
    \/ DoTaskCreate
    \/ DoTaskUpdate
    \/ DoTaskStatus
    \/ DoTaskDelete
    \/ DoAutoclose
    \/ DoTick

Spec == Init /\ [][Next]_vars

----------------------------------------------------------------------------
(* ServiceSpec: the TaskService calls over two projects; every argument is   *)
(* valid except the ids and the status, so the session holds no unflushed    *)
(* change.                                                                   *)

ServiceProjectIds == 1..MaxServiceProjects
ServiceTaskIds == 1..MaxServiceTasks

SvcProjectCreate ==
    /\ next_pid <= MaxServiceProjects
    /\ \E name \in {<<"p">>, <<"q">>} : ProjectCreate(name, <<>>)
    /\ UNCHANGED <<schedVars, sessions, storage>>

SvcProjectDelete == \E project_id \in ServiceProjectIds :
    ProjectDelete(project_id) /\ UNCHANGED <<schedVars, sessions, storage>>

SvcCreateTask ==
    /\ next_tid <= MaxServiceTasks
    /\ \E project_id \in ServiceProjectIds :
          TaskCreate(project_id, <<"a">>, <<>>, NoneStr, NoneDate)
    /\ UNCHANGED <<schedVars, sessions, storage>>

SvcUpdateTask == \E project_id \in ServiceProjectIds, task_id \in ServiceTaskIds :
    UpdateTask(project_id, task_id, NoneSeq, <<"d">>, NoneStr, NoneDate) /\ UNCHANGED <<schedVars, sessions, storage>>

SvcChangeTaskStatus == \E project_id \in ServiceProjectIds, task_id \in ServiceTaskIds,
                          new_status \in {"done", "bogus"} :
    ChangeTaskStatus(project_id, task_id, new_status) /\ UNCHANGED <<schedVars, sessions, storage>>

SvcDeleteTask == \E project_id \in ServiceProjectIds, task_id \in ServiceTaskIds :
    DeleteTask(project_id, task_id) /\ UNCHANGED <<schedVars, sessions, storage>>

SvcGetTask == \E project_id \in ServiceProjectIds, task_id \in ServiceTaskIds :
    GetTask(project_id, task_id) /\ UNCHANGED <<schedVars, sessions, storage>>

SvcListTasks == \E project_id \in ServiceProjectIds :
    ListTasks(project_id) /\ UNCHANGED <<schedVars, sessions, storage>>

ServiceNext ==
    \/ SvcProjectCreate
    \/ SvcProjectDelete
    \/ SvcCreateTask
    \/ SvcUpdateTask
    \/ SvcChangeTaskStatus
    \/ SvcDeleteTask
    \/ SvcGetTask
    \/ SvcListTasks

ServiceSpec == Init /\ [][ServiceNext]_vars

----------------------------------------------------------------------------
(* RaceSpec: request handlers and a reconciliation pass, each on a session   *)
(* of its own, interleaved between their queries and their commits.          *)

RaceProjectCreate ==
    /\ next_pid <= MaxRaceProjects
    /\ \E name \in {<<"p">>, <<"q">>} : ProjectCreate(name, <<>>)
    /\ UNCHANGED <<schedVars, sessions, storage>>

RaceTaskCreate ==
    /\ next_tid <= MaxRaceTasks
    /\ \E project_id \in 1..MaxRaceProjects :
          TaskCreate(project_id, <<"a">>, <<>>, NoneStr, clock)
    /\ UNCHANGED <<schedVars, sessions, storage>>

RaceTaskDelete == \E task_id \in 1..MaxRaceTasks :
    TaskDelete(task_id) /\ UNCHANGED <<schedVars, sessions, storage>>

RaceNext ==
    \/ RaceProjectCreate
    \/ RaceTaskCreate
    \/ RaceTaskDelete
    \/ Tick /\ UNCHANGED <<schedVars, sessions, storage>>
    \/ PassBegin /\ UNCHANGED <<schedVars, storage>>
    \/ PassCommit /\ UNCHANGED <<schedVars, storage>>
    \/ \E h \in 1..MaxHandlers, name \in {<<"p">>, <<"q">>, <<"r">>} :
          CreateCheck(h, name, <<>>) /\ UNCHANGED <<schedVars, storage>>
    \/ \E h \in 1..MaxHandlers : CreateCommit(h) /\ UNCHANGED <<schedVars, storage>>

RaceSpec == Init /\ [][RaceNext]_vars

\* a pass that has queried goes on to its commit: it is straight-line code
RaceFairSpec == RaceSpec /\ WF_vars(PassCommit /\ UNCHANGED <<schedVars, storage>>)

----------------------------------------------------------------------------
(* The in-memory variant: project_manager.py over in_memory_storage.storage *)

\* len(s.split()): the number of words of s
WordCount(s) ==
    Cardinality({i \in DOMAIN s : s[i] # " " /\ (i = 1 \/ s[i - 1] = " ")})

\* a name of 31 one-letter words
Words31 == [i \in 1..61 |-> IF i % 2 = 1 THEN "x" ELSE " "]

\* validators.validate_project: "ok" or the ValueError it raises
validate_project(name, description, existing_projects) ==
    IF WordCount(name) > MaxTitleLen \/ WordCount(description) > MaxDescriptionLen
    THEN "ValueError: too long"
    ELSE IF \E i \in DOMAIN existing_projects : existing_projects[i].name = name
    THEN "ValueError: name exists"
    ELSE IF Len(existing_projects) >= MAX_PROJECTS
    THEN "ValueError: limit"
    ELSE "ok"

\* next((p for p in self.storage.projects if p.id == project_id), None): the
\* position of the first project with that id, 0 for None
FirstWithId(project_id) ==
    IF \E i \in DOMAIN storage : storage[i].id = project_id
    THEN CHOOSE i \in DOMAIN storage :
             /\ storage[i].id = project_id
             /\ \A j \in 1..(i - 1) : storage[j].id # project_id
    ELSE 0

\* ProjectManager.create_project
create_project(name, description) ==
    /\ IF validate_project(name, description, storage) # "ok"
       THEN /\ last' = Call("create_project", validate_project(name, description, storage), 0)
            /\ UNCHANGED storage
       ELSE /\ storage' = Append(storage, [id |-> Len(storage) + 1, name |-> name,
                                           description |-> description])
            /\ last' = Call("create_project", "ok", Len(storage) + 1)
    /\ UNCHANGED <<projects, tasks, dirty, next_pid, next_tid, clock, schedVars, sessions>>

\* ProjectManager.edit_project
edit_project(project_id, new_name, new_description) ==
    /\ LET i == FirstWithId(project_id)
           description == IF Truthy(new_description) THEN new_description
                          ELSE storage[i].description
       IN  IF i = 0
           THEN /\ last' = Call("edit_project", "ValueError: not found", 0)
                /\ UNCHANGED storage
           ELSE IF Truthy(new_name) /\ validate_project(new_name, description, storage) # "ok"
           THEN /\ last' = Call("edit_project",
                                validate_project(new_name, description, storage), 0)
                /\ UNCHANGED storage
           ELSE /\ storage' = [storage EXCEPT
                       ![i].name = IF Truthy(new_name) THEN new_name ELSE @,
                       ![i].description = description]
                /\ last' = Call("edit_project", "ok", 0)
    /\ UNCHANGED <<projects, tasks, dirty, next_pid, next_tid, clock, schedVars, sessions>>

\* ProjectManager.delete_project
delete_project(project_id) ==
    /\ LET i == FirstWithId(project_id)
       IN  IF i = 0
           THEN /\ last' = Call("delete_project", "ValueError: not found", 0)
                /\ UNCHANGED storage
           ELSE /\ storage' = SubSeq(storage, 1, i - 1) \o SubSeq(storage, i + 1, Len(storage))
                /\ last' = Call("delete_project", "ok", 0)
    /\ UNCHANGED <<projects, tasks, dirty, next_pid, next_tid, clock, schedVars, sessions>>

\* the arguments of the in-memory calls
MemoryNames == {<<"p">>, <<"q">>, <<"r">>, Words31}

MemoryNext ==
    \/ \E name \in MemoryNames : create_project(name, <<>>)
    \/ \E project_id \in 1..MAX_PROJECTS, new_name \in MemoryNames \cup {NoneSeq},
          new_description \in {NoneSeq, <<"d">>} :
          edit_project(project_id, new_name, new_description)
    \/ \E project_id \in 1..MAX_PROJECTS : delete_project(project_id)

MemorySpec == Init /\ [][MemoryNext]_vars

----------------------------------------------------------------------------
(* Properties of the store *)

\* the stored tasks of a project, read from the rows
TasksOf(project_id) == {tid \in DOMAIN tasks : tasks[tid].project_id = project_id}

\* the number of stored projects, read from the rows
StoredProjects == Cardinality(DOMAIN projects)

\* the names stored projects hold
HeldNames == {projects[pid].name : pid \in DOMAIN projects}

\* title, description, status and deadline agree
SameEditFields(a, b) ==
    /\ a.title = b.title
    /\ a.description = b.description
    /\ a.status = b.status
    /\ a.deadline = b.deadline

\* C1: in every state reached by creates (with any valid status, 'done' included),
\* updates, status changes and reconciliation passes, every stored task has
\* closed_at non-null if and only if its status is 'done'.
C1_ClosedAtIffDone ==
    \A tid \in DOMAIN tasks : (tasks[tid].closed_at # NoneDate) <=> (tasks[tid].status = "done")

\* C2: an update of an existing task with an invalid new title (blank or longer
\* than 30 characters) and a valid new description fails, and the task read back
\* through the same session has the title, description, status and deadline it
\* had before the call.
C2_AtomicEdit ==
    [][\A task_id \in DOMAIN tasks, title \in {Blank, Long31}, description \in DescriptionInputs :
          TaskUpdate(task_id, title, description, NoneStr, NoneDate) =>
              /\ last'.err # "ok"
              /\ task_id \in DOMAIN tasks'
              /\ SameEditFields(View(task_id)', View(task_id))]_vars

\* C3: a create or an update with a deadline strictly before today fails with
\* InvalidDeadlineError; the failed create adds no task, the failed update leaves
\* the task's deadline and every other attribute as before the call; a deadline
\* equal to today is accepted.
C3_DeadlineRejection ==
    [][/\ \A project_id \in DOMAIN projects :
             /\ TaskCreate(project_id, <<"a">>, <<>>, NoneStr, clock - 1)
                    /\ Cardinality(TasksOf(project_id)) < MAX_NUMBER_OF_TASK
                 => last'.err = "InvalidDeadlineError" /\ tasks' = tasks
             /\ TaskCreate(project_id, <<"a">>, <<>>, NoneStr, clock)
                    /\ Cardinality(TasksOf(project_id)) < MAX_NUMBER_OF_TASK
                 => last'.err = "ok" /\ DOMAIN tasks' # DOMAIN tasks
       /\ \A task_id \in DOMAIN tasks :
             /\ TaskUpdate(task_id, NoneSeq, NoneSeq, NoneStr, clock - 1)
                 => /\ last'.err = "InvalidDeadlineError"
                    /\ task_id \in DOMAIN tasks'
                    /\ View(task_id)' = View(task_id)
             /\ TaskUpdate(task_id, NoneSeq, NoneSeq, NoneStr, clock)
                 => last'.err = "ok" /\ View(task_id)'.deadline = clock]_vars

\* no two stored projects have the same name
NoDuplicateNames ==
    \A p1, p2 \in DOMAIN projects : p1 # p2 => projects[p1].name # projects[p2].name

\* a create with a name a stored project holds fails with ProjectNameExistsError
DuplicateCreateRejected ==
    \A name \in HeldNames, description \in ProjectDescriptionInputs :
        ProjectCreateError(name, description) = "ProjectNameExistsError"

\* a create with a name a stored project holds fails: with ProjectNameExistsError
\* below the ceiling, with ProjectLimitExceededError at the ceiling
DuplicateCreateRejectedByCount ==
    \A name \in HeldNames, description \in ProjectDescriptionInputs :
        ProjectCreateError(name, description) =
            IF StoredProjects < MAX_NUMBER_OF_PROJECT THEN "ProjectNameExistsError"
            ELSE "ProjectLimitExceededError"

\* a rename to a name another stored project holds fails with ProjectNameExistsError
RenameToHeldRejected ==
    \A project_id \in DOMAIN projects : \A name \in HeldNames \ {projects[project_id].name} :
        ProjectUpdateError(project_id, name, NoneSeq) = "ProjectNameExistsError"

\* a create or a rename with a name another stored project holds changes no project
DuplicateChangesNothing ==
    /\ \A name \in HeldNames, description \in ProjectDescriptionInputs :
          ProjectCreate(name, description) => projects' = projects
    /\ \A project_id \in DOMAIN projects : \A name \in HeldNames \ {projects[project_id].name} :
          ProjectUpdate(project_id, name, NoneSeq) => projects' = projects

\* C4 as stated: after any sequence of project creates, updates and deletes no two
\* stored projects have the same name; a create with a held name fails with
\* ProjectNameExistsError and changes no project; a rename to a name another
\* project holds fails with ProjectNameExistsError and changes no project.
C4_NameUniqueness ==
    /\ [](NoDuplicateNames /\ DuplicateCreateRejected /\ RenameToHeldRejected)
    /\ [][DuplicateChangesNothing]_vars

\* C4 amended: as C4, but the create with a held name fails with
\* ProjectNameExistsError only while the project count is below the ceiling; at
\* the ceiling it fails with ProjectLimitExceededError.
C4_NameUniquenessByCount ==
    /\ [](NoDuplicateNames /\ DuplicateCreateRejectedByCount /\ RenameToHeldRejected)
    /\ [][DuplicateChangesNothing]_vars

\* a create with a held name has just failed below the ceiling, one project stored
C4_Witness ==
    /\ last.op = "project_create"
    /\ last.err = "ProjectNameExistsError"
    /\ StoredProjects < MAX_NUMBER_OF_PROJECT

\* C5: over creates and deletes the number of stored projects never exceeds
\* MAX_NUMBER_OF_PROJECT; at the ceiling every create fails with
\* ProjectLimitExceededError and the stored projects are unchanged.
C5_ProjectCapacity ==
    /\ [](/\ StoredProjects <= MAX_NUMBER_OF_PROJECT
          /\ StoredProjects = MAX_NUMBER_OF_PROJECT =>
                \A name \in NameInputs, description \in ProjectDescriptionInputs :
                    ProjectCreateError(name, description) = "ProjectLimitExceededError")
    /\ [][\A name \in NameInputs, description \in ProjectDescriptionInputs :
             StoredProjects = MAX_NUMBER_OF_PROJECT /\ ProjectCreate(name, description)
                 => projects' = projects]_vars

\* a create has just failed at the ceiling
C5_Witness ==
    /\ last.op = "project_create"
    /\ last.err = "ProjectLimitExceededError"
    /\ StoredProjects = MAX_NUMBER_OF_PROJECT

\* C6: over task creates and deletes no project ever has more than
\* MAX_NUMBER_OF_TASK tasks; a create for a project at the ceiling fails with
\* TaskLimitExceededError and adds nothing, while a create for another project
\* below its ceiling still succeeds and adds a task to that project.
C6_TaskCapacity ==
    /\ [](/\ \A project_id \in ProjectIds : Cardinality(TasksOf(project_id)) <= MAX_NUMBER_OF_TASK
          /\ \A full \in DOMAIN projects : Cardinality(TasksOf(full)) = MAX_NUMBER_OF_TASK =>
                /\ \A title \in TitleInputs :
                      TaskCreateError(full, title, <<>>, NoneStr, NoneDate) = "TaskLimitExceededError"
                /\ \A other \in DOMAIN projects :
                      Cardinality(TasksOf(other)) < MAX_NUMBER_OF_TASK =>
                          TaskCreateError(other, <<"a">>, <<>>, NoneStr, NoneDate) = "ok")
    /\ [][\A project_id \in DOMAIN projects :
             TaskCreate(project_id, <<"a">>, <<>>, NoneStr, NoneDate) =>
                 IF Cardinality(TasksOf(project_id)) = MAX_NUMBER_OF_TASK
                 THEN tasks' = tasks
                 ELSE /\ Cardinality(DOMAIN tasks') = Cardinality(DOMAIN tasks) + 1
                      /\ \A tid \in DOMAIN tasks' \ DOMAIN tasks : tasks'[tid].project_id = project_id]_vars

\* one project is at its ceiling and the last call created a task for another project
C6_Witness ==
    /\ last.op = "task_create"
    /\ last.err = "ok"
    /\ next_tid - 1 \in DOMAIN tasks
    /\ \E full \in DOMAIN projects :
          /\ Cardinality(TasksOf(full)) = MAX_NUMBER_OF_TASK
          /\ tasks[next_tid - 1].project_id # full

\* C7: a delete of a project that owns N tasks removes the project and its N
\* tasks and no task of another project; from then on TaskService.list_tasks and
\* TaskService.get_task for that project id fail with ProjectNotFoundError.
C7_CascadeDelete ==
    /\ [][\A project_id \in DOMAIN projects :
             ProjectDelete(project_id) /\ ProjectDeleteError(project_id) = "ok" =>
                 /\ DOMAIN projects' = DOMAIN projects \ {project_id}
                 /\ DOMAIN tasks' = DOMAIN tasks \ TasksOf(project_id)
                 /\ \A tid \in DOMAIN tasks' : tasks'[tid] = tasks[tid]
                 /\ list_tasks(project_id)' = "ProjectNotFoundError"
                 /\ \A tid \in TaskIds : get_task(project_id, tid)' = "ProjectNotFoundError"]_vars
    /\ [](\A project_id \in 1..(next_pid - 1) \ DOMAIN projects :
             /\ TasksOf(project_id) = {}
             /\ list_tasks(project_id) = "ProjectNotFoundError"
             /\ \A tid \in TaskIds : get_task(project_id, tid) = "ProjectNotFoundError")

\* a project delete has just succeeded; tasks were stored before it, fewer are
\* stored now, and a task of another project is still stored
C7_Witness ==
    /\ last.op = "project_delete"
    /\ last.err = "ok"
    /\ DOMAIN tasks # {}
    /\ Cardinality(DOMAIN tasks) + MAX_NUMBER_OF_TASK = next_tid - 1

\* the tasks the specification calls overdue and not done
OverdueNotDone(rows, today) ==
    {tid \in DOMAIN rows :
        rows[tid].deadline # NoneDate /\ rows[tid].deadline < today /\ rows[tid].status # "done"}

\* C8: a reconciliation pass on a store with N overdue, non-done tasks returns N
\* and leaves each of them 'done' with closed_at set; a pass run right after it,
\* with no change in between, returns 0 and changes nothing.
C8_ReconciliationCount ==
    /\ [][DoAutoclose =>
             /\ last'.n = Cardinality(OverdueNotDone(tasks, clock))
             /\ \A tid \in OverdueNotDone(tasks, clock) :
                   tasks'[tid].status = "done" /\ tasks'[tid].closed_at # NoneDate]_vars
    /\ [](last.op = "autoclose" =>
             /\ autoclose_overdue_tasks(tasks, clock).count = 0
             /\ autoclose_overdue_tasks(tasks, clock).rows = tasks)

----------------------------------------------------------------------------
(* Properties of the scheduler *)

\* every thread start() created has left run_scheduler
LoopExited == \A t \in DOMAIN threads : threads[t].pc = "dead"

\* the passes in progress that a scheduler thread started
ThreadPasses == Cardinality({t \in DOMAIN threads : threads[t].pc = "pass"})

\* C9: at most one reconciliation pass runs at any instant, under every
\* interleaving of timer ticks, run_once, autoclose_overdue.main and
\* TaskScheduler.start / stop: no pass begins while another is running.
C9_SinglePass == PassesRunning <= 1

\* C10: once stop() has been called after start(), also before the thread reached
\* its loop, the scheduler loop eventually exits (a pass in progress ends first),
\* and from then on no scheduler thread begins a pass.
C10_Cancellation ==
    /\ stopped ~> (LoopExited \/ ~stopped)
    /\ [][stopped /\ LoopExited => ThreadPasses' <= ThreadPasses]_vars

----------------------------------------------------------------------------
(* Properties of the service layer *)

\* C11: every TaskService call (create_task, list_tasks, get_task, update_task,
\* change_task_status, delete_task) that names a project id no stored project
\* has fails with ProjectNotFoundError, whatever the task id.
C11_ProjectFirst ==
    \A project_id \in ServiceProjectIds \ DOMAIN projects :
        /\ create_task(project_id, <<"a">>, <<>>, NoneStr, NoneDate) = "ProjectNotFoundError"
        /\ list_tasks(project_id) = "ProjectNotFoundError"
        /\ \A task_id \in ServiceTaskIds :
              /\ get_task(project_id, task_id) = "ProjectNotFoundError"
              /\ update_task(project_id, task_id, NoneSeq, <<"d">>, NoneStr, NoneDate)
                     = "ProjectNotFoundError"
              /\ change_task_status(project_id, task_id, "done") = "ProjectNotFoundError"
              /\ delete_task(project_id, task_id) = "ProjectNotFoundError"

\* a stored project and a stored task of another project
Mismatched(project_id, task_id) ==
    /\ project_id \in DOMAIN projects
    /\ task_id \in DOMAIN tasks
    /\ tasks[task_id].project_id # project_id

\* C12: get_task, update_task, change_task_status and delete_task called with a
\* stored project and a task of a different project fail with TaskNotFoundError,
\* and the step neither modifies nor deletes a task.
C12_OwnershipCheck ==
    /\ [](\A project_id \in ServiceProjectIds, task_id \in ServiceTaskIds :
             Mismatched(project_id, task_id) =>
                 /\ get_task(project_id, task_id) = "TaskNotFoundError"
                 /\ update_task(project_id, task_id, NoneSeq, <<"d">>, NoneStr, NoneDate)
                        = "TaskNotFoundError"
                 /\ \A new_status \in {"done", "bogus"} :
                       change_task_status(project_id, task_id, new_status) = "TaskNotFoundError"
                 /\ delete_task(project_id, task_id) = "TaskNotFoundError")
    /\ [][\A project_id \in ServiceProjectIds, task_id \in ServiceTaskIds :
             /\ Mismatched(project_id, task_id)
             /\ \/ GetTask(project_id, task_id)
                \/ UpdateTask(project_id, task_id, NoneSeq, <<"d">>, NoneStr, NoneDate)
                \/ \E new_status \in {"done", "bogus"} :
                      ChangeTaskStatus(project_id, task_id, new_status)
                \/ DeleteTask(project_id, task_id)
             => tasks' = tasks /\ dirty' = dirty /\ last'.err = "TaskNotFoundError"]_vars

\* every project id and task id the calls take is stored, and a change_task_status
\* has just failed with TaskNotFoundError: the task belongs to the other project
C12_Witness ==
    /\ DOMAIN projects = ServiceProjectIds
    /\ DOMAIN tasks = ServiceTaskIds
    /\ last.op = "change_task_status"
    /\ last.err = "TaskNotFoundError"

----------------------------------------------------------------------------
(* Properties of concurrent sessions *)

\* C13: when a pass commits after a request handler deleted some of the overdue
\* tasks it had queried, the tasks that remain are stored closed (status 'done',
\* closed_at set) and the pass returns the number of tasks it closed.
C13_FailureIsolation ==
    [][PassCommit =>
          LET remaining == DOMAIN sessions[PassSession].loaded \cap DOMAIN tasks
          IN  /\ \A tid \in remaining :
                    tasks'[tid].status = "done" /\ tasks'[tid].closed_at # NoneDate
              /\ last'.n = Cardinality(remaining)]_vars

\* C14: a successful TaskRepository.change_status or update that takes a task
\* from a status other than 'done' to 'done' stores closed_at equal to the
\* current time, not earlier than created_at; one that takes it from 'done' to
\* 'todo' or 'doing' stores closed_at null.
C14_ClosedAtOnTransition ==
    [][\A tid \in DOMAIN tasks \cap DOMAIN tasks' :
          last'.op \in {"task_status", "task_update"} /\ last'.err = "ok" =>
              /\ View(tid).status # "done" /\ tasks'[tid].status = "done" =>
                     /\ tasks'[tid].closed_at = clock
                     /\ tasks'[tid].closed_at >= tasks'[tid].created_at
              /\ View(tid).status = "done" /\ tasks'[tid].status \in {"todo", "doing"} =>
                     tasks'[tid].closed_at = NoneDate]_vars

\* C15: after any sequence of ProjectRepository.create and update calls every
\* stored project has a name that is non-blank after trimming and at most 30
\* characters long and a description of at most 150 characters; an update with
\* a blank or over-long name fails and changes nothing.
C15_ProjectFieldsValid ==
    /\ [](\A pid \in DOMAIN projects :
             /\ Strip(projects[pid].name) # <<>>
             /\ Len(projects[pid].name) <= MaxTitleLen
             /\ Len(projects[pid].description) <= MaxDescriptionLen)
    /\ [][\A pid \in DOMAIN projects, name \in {Blank, Long31} :
             ProjectUpdate(pid, name, NoneSeq) =>
                 last'.err # "ok" /\ projects' = projects]_vars

\* C16: the project_id of every stored task is the id of a stored project; a
\* task creation for a project id that is not stored fails with
\* ProjectNotFoundError and adds no task; no step changes the project_id of a
\* task that stays stored.
C16_ReferentialIntegrity ==
    /\ [](\A tid \in DOMAIN tasks : tasks[tid].project_id \in DOMAIN projects)
    /\ [][\A project_id \in ServiceProjectIds \ DOMAIN projects :
             TaskCreate(project_id, <<"a">>, <<>>, NoneStr, NoneDate) =>
                 last'.err = "ProjectNotFoundError" /\ tasks' = tasks]_vars
    /\ [][\A tid \in DOMAIN tasks \cap DOMAIN tasks' :
             tasks'[tid].project_id = tasks[tid].project_id]_vars

\* a task creation has just failed for a project that was deleted, while the
\* other project still holds a task
C16_Witness ==
    /\ last.op = "task_create"
    /\ last.err = "ProjectNotFoundError"
    /\ DOMAIN tasks # {}
    /\ Cardinality(DOMAIN projects) = 1
    /\ next_pid = MaxServiceProjects + 1

\* C17: when a task update has failed validation and the next call on the same
\* session, a status change, succeeds and commits, the stored title,
\* description and deadline of the task are those stored before the failed
\* update (which stored nothing).
C17_NoLeak ==
    [][\A tid \in DOMAIN tasks, new_status \in StatusInputs :
          /\ last.op = "task_update"
          /\ last.err \in {"ValidationError", "InvalidDeadlineError", "ValueError"}
          /\ TaskStatus(tid, new_status)
          /\ last'.err = "ok"
          => /\ tasks'[tid].title = tasks[tid].title
             /\ tasks'[tid].description = tasks[tid].description
             /\ tasks'[tid].deadline = tasks[tid].deadline]_vars

\* C18: TaskRepository.change_status on an id that is not stored fails with
\* TaskNotFoundError; on a stored task with a status outside todo, doing, done
\* it fails with ValidationError and leaves status and closed_at as they were;
\* with a valid status it succeeds from any current status and stores it.
C18_ChangeStatus ==
    [][\A tid \in TaskIds, new_status \in StatusInputs :
          TaskStatus(tid, new_status) =>
              IF tid \notin DOMAIN tasks THEN last'.err = "TaskNotFoundError"
              ELSE IF new_status \notin VALID_STATUSES
              THEN /\ last'.err = "ValidationError"
                   /\ tasks' = tasks
                   /\ View(tid)'.status = View(tid).status
                   /\ View(tid)'.closed_at = View(tid).closed_at
              ELSE /\ last'.err = "ok"
                   /\ tasks'[tid].status = new_status]_vars

\* C19: right after a reconciliation pass that ran alone, no stored task has a
\* deadline before today and a status other than 'done'.
C19_CompleteClosure ==
    last.op = "autoclose" => OverdueNotDone(tasks, clock) = {}

\* C20: when request handlers on sessions of their own create projects and
\* their checks and inserts interleave, no two stored projects ever hold the
\* same name: the commit of a handler whose name a stored project holds by then
\* is rejected and stores nothing.
C20_ConcurrentCreate ==
    /\ [](\A p1, p2 \in DOMAIN projects :
             projects[p1].name = projects[p2].name => p1 = p2)
    /\ [][\A h \in DOMAIN sessions :
             /\ CreateCommit(h)
             /\ \E row \in sessions[h].new : row.name \in HeldNames
             => projects' = projects /\ last'.err = "IntegrityError"]_vars

\* a handler's insert has just been rejected while a project with a name is
\* stored: its check had passed before the other handler committed
C20_Witness ==
    /\ last.op = "project_create"
    /\ last.err = "IntegrityError"
    /\ DOMAIN projects # {}

\* C21: when request handlers run ProjectRepository.create at once, each with
\* its count check and its insert as separate steps on a session of its own,
\* the number of stored projects never exceeds MAX_NUMBER_OF_PROJECT.
C21_ConcurrentCapacity ==
    Cardinality(DOMAIN projects) <= MAX_NUMBER_OF_PROJECT

----------------------------------------------------------------------------
(* Properties of the in-memory variant *)

\* C22: after any sequence of ProjectManager.create_project and delete_project
\* calls no two projects in the in-memory storage have the same id (so an id
\* just assigned differs from the id of every project still stored).
C22_IdUniqueness ==
    \A i, j \in DOMAIN storage : storage[i].id = storage[j].id => i = j

\* C30: ProjectManager.edit_project on a stored project, with a new name that
\* no other project holds and that is within the length limit, succeeds
\* whatever the number of projects is, also at the ceiling and also when the
\* new name is the project's own; it fails only for an unknown id, a name
\* another project holds, or an over-long field.
C30_EditProject ==
    [][\A project_id \in 1..MAX_PROJECTS, new_name \in MemoryNames :
          edit_project(project_id, new_name, NoneSeq) =>
              (last'.err = "ok" <=>
                  /\ \E i \in DOMAIN storage : storage[i].id = project_id
                  /\ \A i \in DOMAIN storage :
                        storage[i].name = new_name => i = FirstWithId(project_id)
                  /\ WordCount(new_name) <= MaxTitleLen)]_vars

\* C23: a task update that sets status 'done' and then fails on the deadline
\* (a string that is not a date, or a date in the past) leaves the closed_at of
\* the task, and its status, as they were before the call.
C23_ClosedAtRestored ==
    [][\A tid \in DOMAIN tasks, deadline \in {BadFormat, clock - 1} :
          /\ TaskUpdate(tid, NoneSeq, NoneSeq, "done", deadline)
          /\ last'.err \in {"ValueError", "InvalidDeadlineError"}
          => /\ View(tid)'.closed_at = View(tid).closed_at
             /\ View(tid)'.status = View(tid).status]_vars

\* C24: for a stored task whose deadline lies before today, an update without
\* a deadline argument (here: a new description, with or without status
\* 'done') and a change_status with a valid status both succeed and keep the
\* stored deadline; neither raises InvalidDeadlineError.
C24_DeadlineOnlyWhenSet ==
    [][\A tid \in DOMAIN tasks :
          tasks[tid].deadline # NoneDate /\ tasks[tid].deadline < clock =>
              /\ \A status \in {NoneStr, "done"} :
                    TaskUpdate(tid, NoneSeq, <<"d">>, status, NoneDate) =>
                        last'.err = "ok" /\ tasks'[tid].deadline = tasks[tid].deadline
              /\ \A new_status \in VALID_STATUSES :
                    TaskStatus(tid, new_status) =>
                        last'.err = "ok" /\ tasks'[tid].deadline = tasks[tid].deadline]_vars

\* C25: ProjectRepository.create reports the ceiling before a duplicate name
\* before an invalid field: at the ceiling it fails with
\* ProjectLimitExceededError whatever the name, below it a held name fails with
\* ProjectNameExistsError; TaskRepository.create reports ProjectNotFoundError
\* before TaskLimitExceededError before a ValidationError.
C25_CreatePrecedence ==
    /\ [][\A name \in NameInputs, description \in ProjectDescriptionInputs :
             ProjectCreate(name, description) =>
                 IF StoredProjects >= MAX_NUMBER_OF_PROJECT
                 THEN last'.err = "ProjectLimitExceededError"
                 ELSE IF name \in HeldNames
                 THEN last'.err = "ProjectNameExistsError"
                 ELSE IF name \in {Blank, Long31} \/ description = Long151
                 THEN last'.err = "ValidationError"
                 ELSE last'.err \in {"ok", "DataError"}]_vars
    /\ [][\A project_id \in ProjectIds, title \in {<<"a">>, Long31} :
             TaskCreate(project_id, title, <<>>, NoneStr, NoneDate) =>
                 IF project_id \notin DOMAIN projects
                 THEN last'.err = "ProjectNotFoundError"
                 ELSE IF Cardinality(TasksOf(project_id)) >= MAX_NUMBER_OF_TASK
                 THEN last'.err = "TaskLimitExceededError"
                 ELSE IF title = Long31
                 THEN last'.err = "ValidationError"
                 ELSE last'.err \in {"ok", "DataError"}]_vars

\* a create has just failed with ProjectLimitExceededError while 'p' and 'q'
\* are held: every name it could carry was also a duplicate or invalid
C25_Witness ==
    /\ last.op = "project_create"
    /\ last.err = "ProjectLimitExceededError"
    /\ HeldNames = {<<"p">>, <<"q">>}

C27_SingleScheduler ==
    /\ Cardinality({t \in DOMAIN threads : threads[t].pc # "dead"}) <= 1
    /\ Cardinality(jobs) <= 1

C29_ChangeStatusIdempotent ==
    /\ [](\A tid \in DOMAIN tasks, s \in VALID_STATUSES, later \in clock..MaxDay :
             LET once == [status |-> s,
                          closed_at |-> IF s # "done" THEN NoneDate
                                        ELSE IF View(tid).closed_at = NoneDate THEN clock
                                        ELSE View(tid).closed_at]
                 twice == TaskChangeStatus(TaskChangeStatus(View(tid), s, clock).task, s, later)
             IN  /\ twice.err = "ok"
                 /\ twice.task.status = once.status
                 /\ twice.task.closed_at = once.closed_at)
    /\ [][\A tid \in DOMAIN tasks, s \in VALID_STATUSES :
             /\ last.op \in {"task_status", "tick"}
             /\ dirty = EmptyMap
             /\ tasks[tid].status = s
             /\ (s = "done") = (tasks[tid].closed_at # NoneDate)
             /\ TaskStatus(tid, s)
             => /\ last'.err = "ok"
                /\ tasks'[tid].status = tasks[tid].status
                /\ tasks'[tid].closed_at = tasks[tid].closed_at]_vars

\* change_status('done') has just succeeded on a later day than the one the
\* task was closed on, and the task kept that closed_at
C29_Witness ==
    /\ last = Call("task_status", "ok", 0)
    /\ \E tid \in DOMAIN tasks :
          /\ tasks[tid].status = "done"
          /\ tasks[tid].closed_at # NoneDate
          /\ tasks[tid].closed_at < clock

====
